---- MODULE Spec2Model ----
(***************************************************************************)
(* Model of src/yazi/server.rs: ServerConfig, Server, build_app, run and   *)
(* address, together with the parts of the environment run touches: the    *)
(* socket-address parser behind str::parse::<SocketAddr>(), the operating  *)
(* system's table of listening sockets, the tracing side channel and the   *)
(* connections axum::serve accepts.                                        *)
(*                                                                         *)
(* A string is a sequence of one-character strings, so that formatting and *)
(* parsing are computed character by character.                            *)
(***************************************************************************)
EXTENDS Integers, Sequences, FiniteSets, TLC

(***************************************************************************)
(* Characters and numbers                                                  *)
(***************************************************************************)
DecDigits == <<"0", "1", "2", "3", "4", "5", "6", "7", "8", "9">>

HexLower == <<"0", "1", "2", "3", "4", "5", "6", "7", "8", "9", "a", "b", "c", "d", "e", "f">>

HexUpper == <<"0", "1", "2", "3", "4", "5", "6", "7", "8", "9", "A", "B", "C", "D", "E", "F">>

Letters == {"a", "b", "c", "d", "e", "f", "g", "h", "i", "j", "k", "l", "m", "n", "o", "p", "q", "r", "s", "t", "u", "v", "w", "x", "y", "z"}

\* char::to_digit(radix): the digit's value, or -1 when c is no digit of the radix
ToDigit(c, radix) ==
    IF \E k \in 1..radix : HexLower[k] = c
    THEN (CHOOSE k \in 1..radix : HexLower[k] = c) - 1
    ELSE IF \E k \in 1..radix : HexUpper[k] = c
         THEN (CHOOSE k \in 1..radix : HexUpper[k] = c) - 1
         ELSE -1

\* Display for u16: the decimal digits of n, no sign, no padding
RECURSIVE U16ToString(_)
U16ToString(n) ==
    IF n < 10 THEN <<DecDigits[n + 1]>>
    ELSE U16ToString(n \div 10) \o <<DecDigits[(n % 10) + 1]>>

\* format!("{}:{}", host, port)
FormatHostPort(host, port) == host \o <<":">> \o U16ToString(port)

(***************************************************************************)
(* core::net::parser, as used by "…".parse::<SocketAddr>().  A reader      *)
(* takes the input s and a position i (1-based, Len(s)+1 at the end) and   *)
(* yields NoParse or [ok, val, pos].                                       *)
(***************************************************************************)
NoParse == [ok |-> FALSE]

Parsed(v, p) == [ok |-> TRUE, val |-> v, pos |-> p]

U8Max == 255

U16Max == 65535

\* the length of the run of radix-digits of s that starts at i
RECURSIVE DigitRun(_, _, _)
DigitRun(s, i, radix) ==
    IF i <= Len(s) /\ ToDigit(s[i], radix) >= 0 THEN 1 + DigitRun(s, i + 1, radix) ELSE 0

\* the value of s[i .. i+n-1] in the radix, saturating at maxVal + 1 (checked_mul/checked_add)
RECURSIVE DigitsValue(_, _, _, _, _, _)
DigitsValue(s, i, n, radix, maxVal, acc) ==
    IF n = 0 THEN acc
    ELSE LET next == acc * radix + ToDigit(s[i], radix)
         IN  DigitsValue(s, i + 1, n - 1, radix, maxVal,
                         IF next > maxVal THEN maxVal + 1 ELSE next)

\* read_number after the digits were counted (n) and valued (v)
CheckedNumber(s, i, n, v, maxDigits, allowZeroPrefix, maxVal) ==
    IF n = 0 THEN NoParse
    ELSE IF maxDigits > 0 /\ n > maxDigits THEN NoParse
    ELSE IF v > maxVal THEN NoParse
    ELSE IF ~allowZeroPrefix /\ s[i] = "0" /\ n > 1 THEN NoParse
    ELSE Parsed(v, i + n)

NumberOfRun(s, i, n, radix, maxDigits, allowZeroPrefix, maxVal) ==
    CheckedNumber(s, i, n, DigitsValue(s, i, n, radix, maxVal, 0),
                  maxDigits, allowZeroPrefix, maxVal)

\* Parser::read_number(radix, max_digits, allow_zero_prefix); maxDigits = 0 is None
ReadNumber(s, i, radix, maxDigits, allowZeroPrefix, maxVal) ==
    NumberOfRun(s, i, DigitRun(s, i, radix), radix, maxDigits, allowZeroPrefix, maxVal)

\* Parser::read_given_char
ReadGivenChar(s, i, c) ==
    IF i <= Len(s) /\ s[i] = c THEN Parsed(c, i + 1) ELSE NoParse

\* read_separator(sep, index, inner): the position after the separator, 0 when it is missing
AfterSeparator(s, i, sep, index) ==
    IF index = 0 THEN i
    ELSE IF i <= Len(s) /\ s[i] = sep THEN i + 1 ELSE 0

\* Parser::read_ipv4_addr: four decimal octets, no leading zero, separated by '.'
RECURSIVE ReadOctets(_, _, _, _)
OctetRead(s, index, acc, r) ==
    IF r.ok THEN ReadOctets(s, r.pos, index + 1, Append(acc, r.val)) ELSE NoParse

OctetAt(s, j, index, acc) ==
    IF j = 0 THEN NoParse ELSE OctetRead(s, index, acc, ReadNumber(s, j, 10, 3, FALSE, U8Max))

ReadOctets(s, i, index, acc) ==
    IF index = 4 THEN Parsed(acc, i)
    ELSE OctetAt(s, AfterSeparator(s, i, ".", index), index, acc)

Ipv4Of(r) ==
    IF r.ok THEN Parsed([family |-> "v4", parts |-> r.val], r.pos) ELSE NoParse

ReadIpv4Addr(s, i) == Ipv4Of(ReadOctets(s, i, 0, <<>>))

\* read_groups of read_ipv6_addr: up to limit 16-bit groups separated by ':', the
\* last two of which may be an embedded IPv4 address; val = [groups, ipv4]
RECURSIVE ReadGroups(_, _, _, _, _)
\* v4: the embedded IPv4 address read at the group, g: the hexadecimal group read there
GroupRead(s, i, index, limit, acc, v4, g) ==
    IF v4.ok
    THEN Parsed([groups |-> acc \o << v4.val.parts[1] * 256 + v4.val.parts[2],
                                      v4.val.parts[3] * 256 + v4.val.parts[4] >>,
                 ipv4 |-> TRUE], v4.pos)
    ELSE IF g.ok THEN ReadGroups(s, g.pos, index + 1, limit, Append(acc, g.val))
    ELSE Parsed([groups |-> acc, ipv4 |-> FALSE], i)

GroupAt(s, i, j, index, limit, acc) ==
    IF j = 0 THEN Parsed([groups |-> acc, ipv4 |-> FALSE], i)
    ELSE GroupRead(s, i, index, limit, acc,
                   IF index < limit - 1 THEN ReadIpv4Addr(s, j) ELSE NoParse,
                   ReadNumber(s, j, 16, 4, TRUE, U16Max))

ReadGroups(s, i, index, limit, acc) ==
    IF index >= limit THEN Parsed([groups |-> acc, ipv4 |-> FALSE], i)
    ELSE GroupAt(s, i, AfterSeparator(s, i, ":", index), index, limit, acc)

Zeros(n) == [k \in 1..n |-> 0]

\* the address made of the groups before "::" and the groups after it
Ipv6OfParts(head, tail) ==
    Parsed([family |-> "v6",
            parts  |-> head.val.groups
                          \o Zeros(8 - Len(head.val.groups) - Len(tail.val.groups))
                          \o tail.val.groups],
           tail.pos)

\* read_ipv6_addr after the head groups: all eight, or "::" and the tail groups
Ipv6AfterHead(s, head) ==
    IF Len(head.val.groups) = 8
    THEN Parsed([family |-> "v6", parts |-> head.val.groups], head.pos)
    ELSE IF head.val.ipv4 THEN NoParse
    ELSE IF ~(ReadGivenChar(s, head.pos, ":").ok /\ ReadGivenChar(s, head.pos + 1, ":").ok)
         THEN NoParse
    ELSE Ipv6OfParts(head, ReadGroups(s, head.pos + 2, 0,
                                      8 - (Len(head.val.groups) + 1), <<>>))

\* Parser::read_ipv6_addr
ReadIpv6Addr(s, i) == Ipv6AfterHead(s, ReadGroups(s, i, 0, 8, <<>>))

\* Parser::read_port: ':' and a decimal u16 (a zero prefix is allowed)
ReadPort(s, i) ==
    IF ReadGivenChar(s, i, ":").ok THEN ReadNumber(s, i + 1, 10, 0, TRUE, U16Max) ELSE NoParse

SocketAddrOf(ip, pt) ==
    IF pt.ok THEN Parsed([ip |-> ip.val, port |-> pt.val], pt.pos) ELSE NoParse

SocketAddrAfterIp(s, ip, i) ==
    IF ip.ok /\ i > 0 THEN SocketAddrOf(ip, ReadPort(s, i)) ELSE NoParse

PosOf(r) == IF r.ok THEN r.pos ELSE 0

\* Parser::read_socket_addr_v4
ReadSocketAddrV4(s, i) ==
    SocketAddrAfterIp(s, ReadIpv4Addr(s, i), PosOf(ReadIpv4Addr(s, i)))

\* the position after an optional "%scope" (a decimal number) that starts at i
AfterScopeId(s, i) ==
    IF ReadGivenChar(s, i, "%").ok /\ DigitRun(s, i + 1, 10) > 0
    THEN i + 1 + DigitRun(s, i + 1, 10)
    ELSE i

\* the position after ']' and the optional scope, 0 when ']' is missing
AfterBracket(s, ip) ==
    IF ip.ok /\ ReadGivenChar(s, ip.pos, "]").ok THEN AfterScopeId(s, ip.pos + 1) ELSE 0

V6AfterIp(s, ip) == SocketAddrAfterIp(s, ip, AfterBracket(s, ip))

\* Parser::read_socket_addr_v6: '[' address ']', an optional "%scope", the port
ReadSocketAddrV6(s, i) ==
    IF ReadGivenChar(s, i, "[").ok THEN V6AfterIp(s, ReadIpv6Addr(s, i + 1)) ELSE NoParse

\* Parser::parse_with: the reader must consume the whole input
ParseWith(r, s) == IF r.ok /\ r.pos = Len(s) + 1 THEN [ok |-> TRUE, val |-> r.val] ELSE NoParse

OrElse(first, second) == IF first.ok THEN first ELSE second

\* <SocketAddr as FromStr>::from_str: the V4 form, or else the V6 form
ParseSocketAddr(s) ==
    ParseWith(OrElse(ReadSocketAddrV4(s, 1), ReadSocketAddrV6(s, 1)), s)

\* <Ipv4Addr as FromStr>::from_str and <Ipv6Addr as FromStr>::from_str
ParseIpv4Addr(s) == ParseWith(ReadIpv4Addr(s, 1), s)

ParseIpv6Addr(s) == ParseWith(ReadIpv6Addr(s, 1), s)

(***************************************************************************)
(* Inputs                                                                  *)
(***************************************************************************)
Localhost4 == <<"1", "2", "7", ".", "0", ".", "0", ".", "1">>

Wildcard4 == <<"0", ".", "0", ".", "0", ".", "0">>

Loopback6 == <<":", ":", "1">>

LocalhostName == <<"l", "o", "c", "a", "l", "h", "o", "s", "t">>

EmptyHost == <<>>

\* the host strings a caller may put into a ServerConfig (the field is not validated)
Hosts == {Localhost4, Wildcard4, Loopback6, LocalhostName, EmptyHost}

\* u16 values a caller may put into a ServerConfig
Ports == {0, 8080}

\* handles to the shared application state
AppStates == {"state"}

Servers == {"s1", "s2"}

\* the connections accepted in one behaviour
MaxConns == 2

\* the requests a client may send: an ordinary one and an OPTIONS request
Requests == {[method |-> "GET"], [method |-> "OPTIONS"]}

None == [none |-> TRUE]

(***************************************************************************)
(* ServerConfig and Server                                                 *)
(***************************************************************************)
ServerConfig(host, port, cors_enabled) ==
    [host |-> host, port |-> port, cors_enabled |-> cors_enabled]

DefaultPort == 8080

\* a default that listens on every interface
ServerConfigDefault_Wildcard == ServerConfig(Wildcard4, DefaultPort, TRUE)

\* impl Default for ServerConfig
ServerConfigDefault == ServerConfig(Localhost4, DefaultPort, TRUE)

Configs == {ServerConfig(h, p, c) : h \in Hosts, p \in Ports, c \in BOOLEAN}

\* Server::new
ServerNew(state, config) == [config |-> config, state |-> state]

\* Server::with_defaults
ServerWithDefaults(state) == ServerNew(state, ServerConfigDefault)

(***************************************************************************)
(* The pipeline: a router and the layers attached to it, in attachment     *)
(* order (the first attached is the innermost).                            *)
(***************************************************************************)
\* routes::create_router(state)
CreateRouter(state) == [router |-> state, layers |-> <<>>]

\* Router::layer
Layer(app, layer) == [app EXCEPT !.layers = Append(@, layer)]

\* axum::middleware::from_fn(f)
FromFn(f) == [kind |-> f]

\* TraceLayer::new_for_http()
TraceLayerNewForHttp == [kind |-> "trace"]

\* CorsLayer::new().allow_origin(Any).allow_methods(Any).allow_headers(Any)
CorsLayerAny ==
    [kind |-> "cors", allow_origin |-> "*", allow_methods |-> "*", allow_headers |-> "*"]

\* build_app with the logging layer attached after the request-id layer
BuildApp_LoggingOutside(self) ==
    LET app == Layer(Layer(Layer(CreateRouter(self.state),
                                 FromFn("request_id_middleware")),
                           FromFn("logging_middleware")),
                     TraceLayerNewForHttp)
    IN  IF self.config.cors_enabled THEN Layer(app, CorsLayerAny) ELSE app

\* build_app that attaches the CORS layer whatever the flag says
BuildApp_AlwaysCors(self) ==
    Layer(Layer(Layer(Layer(CreateRouter(self.state),
                            FromFn("logging_middleware")),
                      FromFn("request_id_middleware")),
                TraceLayerNewForHttp),
          CorsLayerAny)

\* Server::build_app
BuildApp(self) ==
    LET app == Layer(Layer(Layer(CreateRouter(self.state),
                                 FromFn("logging_middleware")),
                           FromFn("request_id_middleware")),
                     TraceLayerNewForHttp)
    IN  IF self.config.cors_enabled THEN Layer(app, CorsLayerAny) ELSE app

\* address without the separator
Address_NoColon(self) == self.config.host \o U16ToString(self.config.port)

\* Server::address
Address(self) == FormatHostPort(self.config.host, self.config.port)

(***************************************************************************)
(* A request through a pipeline.  Each layer sees the request, calls the   *)
(* service it wraps and sees the response on the way back.                 *)
(***************************************************************************)
\* the CORS layer answers an OPTIONS request itself and does not call the inner service
CorsAnswersItself(req) == req.method = "OPTIONS"

\* logging_middleware and request_id_middleware call next.run(req)
MiddlewareCallsNext(layer) == layer.kind \in {"logging_middleware", "request_id_middleware"}

\* the response headers a CORS layer adds
CorsHeaders(layer, req) ==
    IF CorsAnswersItself(req)
    THEN {<<"access-control-allow-origin", layer.allow_origin>>,
          <<"access-control-allow-methods", layer.allow_methods>>,
          <<"access-control-allow-headers", layer.allow_headers>>}
    ELSE {<<"access-control-allow-origin", layer.allow_origin>>}

\* the service made of the router and its first k layers, called with req:
\* the events in order, and the response
RECURSIVE Call(_, _, _)
Call(app, k, req) ==
    IF k = 0
    THEN [events |-> << <<"router", "request">> >>,
          resp   |-> [status |-> 200, headers |-> {}, state |-> app.router]]
    ELSE LET layer == app.layers[k]
             inner == Call(app, k - 1, req)
             seen  == << <<layer.kind, "request">> >>
             back  == << <<layer.kind, "response">> >>
         IN  IF layer.kind = "cors"
             THEN IF CorsAnswersItself(req)
                  THEN [events |-> seen \o back,
                        resp   |-> [status |-> 200, headers |-> CorsHeaders(layer, req),
                                    state |-> None]]
                  ELSE [events |-> seen \o inner.events \o back,
                        resp   |-> [inner.resp EXCEPT
                                      !.headers = @ \cup CorsHeaders(layer, req)]]
             ELSE IF layer.kind = "trace" \/ MiddlewareCallsNext(layer)
                  THEN [events |-> seen \o inner.events \o back, resp |-> inner.resp]
                  ELSE [events |-> seen \o back,
                        resp   |-> [status |-> 500, headers |-> {}, state |-> None]]

\* the whole pipeline called with req
Dispatch(app, req) == Call(app, Len(app.layers), req)

(***************************************************************************)
(* The operating system's listening sockets                                *)
(***************************************************************************)
IsUnspecified(ip) == \A k \in 1..Len(ip.parts) : ip.parts[k] = 0

\* two socket addresses that cannot both be listened on; port 0 asks for a free port
AddrConflict(a, b) ==
    /\ a.port = b.port
    /\ a.port # 0
    /\ a.ip.family = b.ip.family
    /\ (a.ip = b.ip \/ IsUnspecified(a.ip) \/ IsUnspecified(b.ip))

(***************************************************************************)
(* State                                                                   *)
(***************************************************************************)
VARIABLES
    server,      \* server[s]: the Server value, None before it is constructed
    made,        \* made[s]: the constructor that made it
    pc,          \* pc[s]: where the server's run is
    runs,        \* runs[s]: how many times run was invoked on it
    trace,       \* trace[s]: the steps run has completed, in order
    addr,        \* addr[s]: the SocketAddr run parsed
    app,         \* app[s]: the pipeline run built
    binds,       \* binds[s]: how many times run called TcpListener::bind
    result,      \* result[s]: how run ended
    mech,        \* mech[s]: the state of axum::serve for the server
    listeners,   \* the listening sockets: [owner, addr]
    records,     \* records[s]: the tracing records run emitted
    conns,       \* the accepted connections, in order of acceptance
    ret,         \* what the step just taken returned, when it was build_app or address
    appState     \* the contents of the shared application state

vars == <<server, made, pc, runs, trace, addr, app, binds, result, mech, listeners, records,
          conns, ret, appState>>

Init ==
    /\ server = [s \in Servers |-> None]
    /\ made = [s \in Servers |-> "none"]
    /\ pc = [s \in Servers |-> "unborn"]
    /\ runs = [s \in Servers |-> 0]
    /\ trace = [s \in Servers |-> <<>>]
    /\ addr = [s \in Servers |-> None]
    /\ app = [s \in Servers |-> None]
    /\ binds = [s \in Servers |-> 0]
    /\ result = [s \in Servers |-> None]
    /\ mech = [s \in Servers |-> "off"]
    /\ listeners = {}
    /\ records = [s \in Servers |-> <<>>]
    /\ conns = <<>>
    /\ ret = None
    /\ appState = [a \in AppStates |-> 0]

(***************************************************************************)
(* Construction and the two queries                                        *)
(***************************************************************************)
New(s, state, config) ==
    /\ pc[s] = "unborn"
    /\ server' = [server EXCEPT ![s] = ServerNew(state, config)]
    /\ made' = [made EXCEPT ![s] = "new"]
    /\ pc' = [pc EXCEPT ![s] = "idle"]
    /\ ret' = None
    /\ UNCHANGED <<trace, runs, addr, app, binds, result, mech, listeners, records, conns, appState>>

WithDefaults(s, state) ==
    /\ pc[s] = "unborn"
    /\ server' = [server EXCEPT ![s] = ServerWithDefaults(state)]
    /\ made' = [made EXCEPT ![s] = "with_defaults"]
    /\ pc' = [pc EXCEPT ![s] = "idle"]
    /\ ret' = None
    /\ UNCHANGED <<trace, runs, addr, app, binds, result, mech, listeners, records, conns, appState>>

\* a caller's server.build_app(): &self, so only while run has not consumed the server
CallBuildApp(s) ==
    /\ pc[s] = "idle"
    /\ ret' = [op |-> "build_app", srv |-> s, val |-> BuildApp(server[s])]
    /\ UNCHANGED <<trace, server, made, pc, runs, addr, app, binds, result, mech, listeners,
                   records, conns, appState>>

\* a caller's server.address()
CallAddress(s) ==
    /\ pc[s] = "idle"
    /\ ret' = [op |-> "address", srv |-> s, val |-> Address(server[s])]
    /\ UNCHANGED <<trace, server, made, pc, runs, addr, app, binds, result, mech, listeners,
                   records, conns, appState>>

(***************************************************************************)
(* Server::run, step by step                                               *)
(***************************************************************************)
\* format!(..).parse().expect("Invalid address"): a parse error panics
RunResolve(s) ==
    /\ pc[s] = "idle"
    /\ runs' = [runs EXCEPT ![s] = @ + 1]
    /\ LET parsed == ParseSocketAddr(FormatHostPort(server[s].config.host,
                                                    server[s].config.port))
       IN  IF parsed.ok
           THEN /\ addr' = [addr EXCEPT ![s] = parsed.val]
                /\ trace' = [trace EXCEPT ![s] = Append(@, "resolve")]
                /\ pc' = [pc EXCEPT ![s] = "resolved"]
                /\ UNCHANGED result
           ELSE /\ pc' = [pc EXCEPT ![s] = "panicked"]
                /\ result' = [result EXCEPT ![s] = [kind |-> "panic", error |-> "Invalid address"]]
                /\ UNCHANGED <<addr, trace>>
    /\ ret' = None
    /\ UNCHANGED <<server, made, app, binds, mech, listeners, records, conns, appState>>

\* let app = self.build_app();
RunBuild(s) ==
    /\ pc[s] = "resolved"
    /\ app' = [app EXCEPT ![s] = BuildApp(server[s])]
    /\ pc' = [pc EXCEPT ![s] = "built"]
    /\ trace' = [trace EXCEPT ![s] = Append(@, "build")]
    /\ ret' = None
    /\ UNCHANGED <<server, made, runs, addr, binds, result, mech, listeners, records, conns,
                   appState>>

\* a run that tries the bind again when it fails
RunBind_Retry(s) ==
    /\ pc[s] = "built"
    /\ binds' = [binds EXCEPT ![s] = @ + 1]
    /\ \E refused \in BOOLEAN :
         LET inUse == \E l \in listeners : AddrConflict(l.addr, addr[s])
         IN  IF inUse \/ refused
             THEN UNCHANGED <<pc, result, listeners, trace>>
             ELSE /\ pc' = [pc EXCEPT ![s] = "bound"]
                  /\ trace' = [trace EXCEPT ![s] = Append(@, "bind")]
                  /\ listeners' = listeners \cup {[owner |-> s, addr |-> addr[s]]}
                  /\ UNCHANGED result
    /\ ret' = None
    /\ UNCHANGED <<server, made, runs, addr, app, mech, records, conns, appState>>

\* TcpListener::bind(addr).await?  The system refuses an address in use, and may
\* refuse any other (permission denied, address not available).
RunBind(s) ==
    /\ pc[s] = "built"
    /\ binds' = [binds EXCEPT ![s] = @ + 1]
    /\ \E refused \in BOOLEAN :
         LET inUse == \E l \in listeners : AddrConflict(l.addr, addr[s])
         IN  IF inUse \/ refused
             THEN /\ pc' = [pc EXCEPT ![s] = "returned"]
                  /\ result' = [result EXCEPT ![s] =
                        [kind |-> "Err",
                         error |-> IF inUse THEN "io: AddrInUse" ELSE "io: PermissionDenied"]]
                  /\ UNCHANGED <<listeners, trace>>
             ELSE /\ pc' = [pc EXCEPT ![s] = "bound"]
                  /\ trace' = [trace EXCEPT ![s] = Append(@, "bind")]
                  /\ listeners' = listeners \cup {[owner |-> s, addr |-> addr[s]]}
                  /\ UNCHANGED result
    /\ ret' = None
    /\ UNCHANGED <<server, made, runs, addr, app, mech, records, conns, appState>>

\* a run that emits the startup record before it binds
RunLog_BeforeBind(s) ==
    /\ pc[s] = "built"
    /\ records[s] = <<>>
    /\ records' = [records EXCEPT ![s] =
          Append(@, [message |-> "Starting server", host |-> server[s].config.host,
                     port |-> server[s].config.port])]
    /\ trace' = [trace EXCEPT ![s] = Append(@, "record")]
    /\ ret' = None
    /\ UNCHANGED <<server, made, pc, runs, addr, app, binds, result, mech, listeners, conns,
                   appState>>

\* info!(host = .., port = .., "Starting server"); then axum::serve(listener, app) starts
RunLog(s) ==
    /\ pc[s] = "bound"
    /\ records' = [records EXCEPT ![s] =
          Append(@, [message |-> "Starting server", host |-> server[s].config.host,
                     port |-> server[s].config.port])]
    /\ mech' = [mech EXCEPT ![s] = "running"]
    /\ pc' = [pc EXCEPT ![s] = "serving"]
    /\ trace' = [trace EXCEPT ![s] = trace[s] \o <<"record", "serve">>]
    /\ ret' = None
    /\ UNCHANGED <<server, made, runs, addr, app, binds, result, listeners, conns, appState>>

\* an accept loop that handles each connection before it accepts the next
Accept_Serial(s) ==
    /\ pc[s] = "serving"
    /\ mech[s] = "running"
    /\ Len(conns) < MaxConns
    /\ \A c \in 1..Len(conns) : conns[c].stage = "done"
    /\ conns' = Append(conns, [srv |-> s, stage |-> "accepted", req |-> None,
                               events |-> <<>>, resp |-> None])
    /\ ret' = None
    /\ UNCHANGED <<trace, server, made, pc, runs, addr, app, binds, result, mech, listeners,
                   records, appState>>

\* the accept loop of axum::serve accepts a connection and spawns a task for it
Accept(s) ==
    /\ pc[s] = "serving"
    /\ mech[s] = "running"
    /\ Len(conns) < MaxConns
    /\ conns' = Append(conns, [srv |-> s, stage |-> "accepted", req |-> None,
                               events |-> <<>>, resp |-> None])
    /\ ret' = None
    /\ UNCHANGED <<trace, server, made, pc, runs, addr, app, binds, result, mech, listeners,
                   records, appState>>

\* a connection's task reads a request, calls the pipeline with it and writes the response
HandleRequest(c, req) ==
    /\ c \in 1..Len(conns)
    /\ conns[c].stage = "accepted"
    /\ LET out == Dispatch(app[conns[c].srv], req)
       IN  conns' = [conns EXCEPT ![c] = [@ EXCEPT !.stage = "done", !.req = req,
                                                  !.events = out.events, !.resp = out.resp]]
    /\ ret' = None
    /\ UNCHANGED <<trace, server, made, pc, runs, addr, app, binds, result, mech, listeners,
                   records, appState>>

\* the serving mechanism meets an I/O failure it cannot recover from
ServeFail(s) ==
    /\ pc[s] = "serving"
    /\ mech[s] = "running"
    /\ mech' = [mech EXCEPT ![s] = "failed"]
    /\ ret' = None
    /\ UNCHANGED <<trace, server, made, pc, runs, addr, app, binds, result, listeners, records,
                   conns, appState>>

\* a run that leaves the serve loop without a failure and returns success
RunReturn_Shutdown(s) ==
    /\ pc[s] = "serving"
    /\ pc' = [pc EXCEPT ![s] = "returned"]
    /\ result' = [result EXCEPT ![s] =
          IF mech[s] = "failed" THEN [kind |-> "Err", error |-> "io: serve"]
          ELSE [kind |-> "Ok", error |-> ""]]
    /\ listeners' = {l \in listeners : l.owner # s}
    /\ ret' = None
    /\ UNCHANGED <<trace, server, made, runs, addr, app, binds, mech, records, conns, appState>>

\* axum::serve(listener, app).await yields the failure and run returns it;
\* the listener, moved into serve, is dropped
RunReturn(s) ==
    /\ pc[s] = "serving"
    /\ mech[s] = "failed"
    /\ pc' = [pc EXCEPT ![s] = "returned"]
    /\ result' = [result EXCEPT ![s] = [kind |-> "Err", error |-> "io: serve"]]
    /\ listeners' = {l \in listeners : l.owner # s}
    /\ ret' = None
    /\ UNCHANGED <<trace, server, made, runs, addr, app, binds, mech, records, conns, appState>>

Next ==
    \/ \E s \in Servers, state \in AppStates, config \in Configs : New(s, state, config)
    \/ \E s \in Servers, state \in AppStates : WithDefaults(s, state)
    \/ \E s \in Servers : CallBuildApp(s)
    \/ \E s \in Servers : CallAddress(s)
    \/ \E s \in Servers : RunResolve(s)
    \/ \E s \in Servers : RunBuild(s)
    \/ \E s \in Servers : RunBind(s)
    \/ \E s \in Servers : RunLog(s)
    \/ \E s \in Servers : Accept(s)
    \/ \E c \in 1..MaxConns, req \in Requests : HandleRequest(c, req)
    \/ \E s \in Servers : ServeFail(s)
    \/ \E s \in Servers : RunReturn(s)

Spec == Init /\ [][Next]_vars

(***************************************************************************)
(* Properties                                                              *)
(***************************************************************************)
\* run has been invoked on s
Started(s) == pc[s] \notin {"unborn", "idle"}

\* the connections the server s accepted
ConnsOf(s) == {c \in 1..Len(conns) : conns[c].srv = s}

\* the string run hands to parse
RunAddress(s) == FormatHostPort(server[s].config.host, server[s].config.port)

\* run has ended for s by returning the value r
Returned(s, kind) == pc[s] \in {"returned", "panicked"} /\ result[s].kind = kind

\* a host of one of the forms the data model admits: an IPv4 literal (the wildcard
\* 0.0.0.0 is one), an IPv6 literal, or a hostname of letters, digits, '-' and '.'
IsHostname(h) ==
    /\ Len(h) > 0
    /\ \A k \in 1..Len(h) : h[k] \in Letters \/ ToDigit(h[k], 10) >= 0 \/ h[k] \in {"-", "."}
    /\ h[1] \in Letters \/ ToDigit(h[1], 10) >= 0

AdmittedHost(h) == ParseIpv4Addr(h).ok \/ ParseIpv6Addr(h).ok \/ IsHostname(h)

\* C1: when host:port does not parse as a socket address, run reports an error value
\* to its caller (no panic), and binds nothing, records nothing and accepts nothing.
C1_InvalidAddressIsReported ==
    \A s \in Servers :
        (Started(s) /\ ~ParseSocketAddr(RunAddress(s)).ok) =>
            /\ Returned(s, "Err")
            /\ binds[s] = 0
            /\ records[s] = <<>>
            /\ ConnsOf(s) = {}

\* C6: for every host of an admitted form and every port, run's address resolution
\* succeeds on host:port and run goes on to bind at that host and port.
C6_AdmittedHostsResolve ==
    \A s \in Servers :
        (Started(s) /\ AdmittedHost(server[s].config.host)) =>
            /\ pc[s] # "panicked"
            /\ addr[s] # None
            /\ addr[s].port = server[s].config.port

\* C7: default() is exactly 127.0.0.1, 8080, true, and a Server made by with_defaults
\* holds exactly that config and the state it was given.
C7_Defaults ==
    /\ ServerConfigDefault.host = <<"1", "2", "7", ".", "0", ".", "0", ".", "1">>
    /\ ServerConfigDefault.port = 8080
    /\ ServerConfigDefault.cors_enabled = TRUE
    /\ \A s \in Servers :
          made[s] = "with_defaults" =>
              /\ server[s].config.host = <<"1", "2", "7", ".", "0", ".", "0", ".", "1">>
              /\ server[s].config.port = 8080
              /\ server[s].config.cors_enabled = TRUE
              /\ DOMAIN server[s] = {"config", "state"}
              /\ server[s].state \in AppStates

C7_Witness ==
    \E s \in Servers : made[s] = "with_defaults" /\ pc[s] = "idle"

\* the kinds of a pipeline's layers, in attachment order
KindsOf(a) == [k \in 1..Len(a.layers) |-> a.layers[k].kind]

\* the layers of events that saw the request (phase "request") or the response
LayersSeen(events, phase) ==
    LET sel == SelectSeq(events, LAMBDA e : e[2] = phase)
    IN  [k \in 1..Len(sel) |-> sel[k][1]]

Reverse(q) == [k \in 1..Len(q) |-> q[Len(q) + 1 - k]]

IsPrefix(p, q) == Len(p) <= Len(q) /\ SubSeq(q, 1, Len(p)) = p

\* the layers of the server's pipeline from the outermost to the innermost
OuterToInner(s) ==
    (IF server[s].config.cors_enabled THEN <<"cors">> ELSE <<>>)
        \o <<"trace", "request_id_middleware", "logging_middleware">>

\* the pipelines built so far: by run, and by the build_app call just made
BuiltFor(s) ==
    (IF app[s] # None THEN {app[s]} ELSE {})
        \cup (IF ret # None /\ ret.op = "build_app" /\ ret.srv = s THEN {ret.val} ELSE {})

AttachedInOrder ==
    \A s \in Servers : \A a \in BuiltFor(s) :
        KindsOf(a) = <<"logging_middleware", "request_id_middleware", "trace">>
                        \o (IF server[s].config.cors_enabled THEN <<"cors">> ELSE <<>>)

Handled == {c \in 1..Len(conns) : conns[c].stage = "done"}

\* the request went through every layer, outermost first, to the route handler, and
\* the response came back through the layers in the reverse order
FullTraversal(c) ==
    LET s == conns[c].srv
    IN  /\ LayersSeen(conns[c].events, "request") = OuterToInner(s) \o <<"router">>
        /\ LayersSeen(conns[c].events, "response") = Reverse(OuterToInner(s))
        /\ SubSeq(conns[c].events, 1, Len(OuterToInner(s)) + 1)
              = [k \in 1..(Len(OuterToInner(s)) + 1) |->
                    <<(OuterToInner(s) \o <<"router">>)[k], "request">>]

\* C2 as stated: the layers are attached in the order router, logging, request-id,
\* tracing, CORS if enabled, and every request traverses CORS (when present),
\* tracing, request-id, logging and the route handler in that order, the response
\* passing back in the reverse order.
C2_EveryRequestTraversesAll ==
    /\ AttachedInOrder
    /\ \A c \in Handled : FullTraversal(c)

\* C2 as amended: the same, for every request the CORS layer does not answer itself;
\* an OPTIONS request to a pipeline with the CORS layer is answered by that layer
\* and seen by no other layer nor by the route handler.
C2_LayerOrder ==
    /\ AttachedInOrder
    /\ \A c \in Handled :
          IF server[conns[c].srv].config.cors_enabled /\ conns[c].req.method = "OPTIONS"
          THEN conns[c].events = << <<"cors", "request">>, <<"cors", "response">> >>
          ELSE FullTraversal(c)

C2_Witness ==
    \E c \in Handled, d \in Handled :
        /\ server[conns[c].srv].config.cors_enabled
        /\ conns[c].req.method = "GET"
        /\ Len(conns[c].events) = 9
        /\ server[conns[d].srv].config.cors_enabled
        /\ conns[d].req.method = "OPTIONS"
        /\ Len(conns[d].events) = 2

\* C3: the pipeline has the permissive cross-origin layer (any origin, any method, any
\* header) exactly when cors_enabled; without it the pipeline is the router and three
\* layers, and no response carries a cross-origin header.
C3_CorsIffEnabled ==
    /\ \A s \in Servers : \A a \in BuiltFor(s) :
          LET cors == {k \in 1..Len(a.layers) : a.layers[k].kind = "cors"}
          IN  /\ (cors # {}) <=> server[s].config.cors_enabled
              /\ \A k \in cors :
                    a.layers[k] = [kind |-> "cors", allow_origin |-> "*",
                                   allow_methods |-> "*", allow_headers |-> "*"]
              /\ Len(a.layers) = 3 + Cardinality(cors)
              /\ Cardinality(cors) <= 1
    /\ \A c \in Handled :
          IF server[conns[c].srv].config.cors_enabled
          THEN <<"access-control-allow-origin", "*">> \in conns[c].resp.headers
          ELSE conns[c].resp.headers = {}

C3_Witness ==
    \E c \in Handled, d \in Handled :
        /\ server[conns[c].srv].config.cors_enabled
        /\ conns[c].resp.headers # {}
        /\ ~server[conns[d].srv].config.cors_enabled
        /\ conns[d].resp.headers = {}

RunOrder == <<"resolve", "build", "bind", "record", "serve">>

InSeq(x, q) == \E k \in 1..Len(q) : q[k] = x

\* C4: run's steps happen in the order resolve, build, bind, record, serve; a
\* connection is accepted only after the address was resolved and the socket bound in
\* the same run, and the startup record is emitted once, after the bind and before
\* the first accept.
C4_RunOrder ==
    \A s \in Servers :
        /\ IsPrefix(trace[s], RunOrder)
        /\ InSeq("resolve", trace[s]) <=> addr[s] # None
        /\ InSeq("build", trace[s]) <=> app[s] # None
        /\ (\E l \in listeners : l.owner = s) => InSeq("bind", trace[s])
        /\ InSeq("bind", trace[s]) => binds[s] = 1
        /\ Len(records[s]) = (IF InSeq("record", trace[s]) THEN 1 ELSE 0)
        /\ Len(records[s]) = 1 =>
              /\ InSeq("bind", trace[s])
              /\ records[s][1].host = server[s].config.host
              /\ records[s][1].port = server[s].config.port
        /\ pc[s] = "serving" => Len(records[s]) = 1
        /\ ConnsOf(s) # {} => (trace[s] = RunOrder /\ Len(records[s]) = 1)

C4_Witness ==
    \E s \in Servers : ConnsOf(s) # {} /\ pc[s] = "serving"

BindFailed(r) == r # None /\ r.kind = "Err" /\ r.error \in {"io: AddrInUse", "io: PermissionDenied"}

\* C5: when the bind fails, run returns an I/O error after exactly one bind attempt,
\* with no startup record and no serving; a bind on an address another server is
\* listening on fails, and the failing run leaves the listening server as it was.
C5_BindFailure ==
    /\ [](\A s \in Servers :
            /\ binds[s] <= 1
            /\ BindFailed(result[s]) =>
                  /\ pc[s] = "returned"
                  /\ binds[s] = 1
                  /\ records[s] = <<>>
                  /\ mech[s] = "off"
                  /\ ConnsOf(s) = {}
                  /\ ~\E l \in listeners : l.owner = s)
    /\ [][\A s \in Servers :
            /\ (pc[s] = "built" /\ pc'[s] # "built"
                   /\ \E l \in listeners : AddrConflict(l.addr, addr[s]))
                  => BindFailed(result'[s])
            /\ (~BindFailed(result[s]) /\ BindFailed(result'[s])) =>
                  /\ listeners' = listeners
                  /\ conns' = conns
                  /\ records' = records
                  /\ \A t \in Servers \ {s} :
                        pc'[t] = pc[t] /\ mech'[t] = mech[t] /\ result'[t] = result[t]]_vars

C5_Witness ==
    \E s \in Servers, t \in Servers :
        /\ s # t
        /\ pc[t] = "serving"
        /\ \E l \in listeners : l.owner = t /\ l.addr = addr[s]
        /\ pc[s] = "returned"
        /\ result[s] = [kind |-> "Err", error |-> "io: AddrInUse"]

\* C8: a call of build_app or address changes nothing of the server or of the world
\* (config, state handle, sockets, records), leaves the server ready for run, and
\* returns the same value as the call before it; address returns host ":" port.
C8_QueriesArePure ==
    [][ret' # None =>
          /\ UNCHANGED <<server, made, pc, runs, trace, addr, app, binds, result, mech,
                         listeners, records, conns, appState>>
          /\ pc'[ret'.srv] = "idle"
          /\ (ret # None /\ ret.op = ret'.op /\ ret.srv = ret'.srv) => ret'.val = ret.val
          /\ ret'.op = "build_app" =>
                /\ ret'.val.router = server[ret'.srv].state
                /\ Len(ret'.val.layers) = IF server[ret'.srv].config.cors_enabled THEN 4 ELSE 3
          /\ ret'.op = "address" =>
                LET h == server[ret'.srv].config.host
                    v == ret'.val
                IN  /\ Len(v) >= Len(h) + 2
                    /\ SubSeq(v, 1, Len(h)) = h
                    /\ v[Len(h) + 1] = ":"
                    /\ ReadNumber(v, Len(h) + 2, 10, 0, FALSE, U16Max)
                          = Parsed(server[ret'.srv].config.port, Len(v) + 1)]_vars

C8_Witness ==
    /\ ret # None
    /\ ret.op = "address"
    /\ pc[ret.srv] = "idle"
    /\ ENABLED RunResolve(ret.srv)

\* C9: run is invoked at most once on a Server; once serving, run leaves the serve
\* loop only when the serving mechanism has failed, and then returns that failure as
\* an error; run never returns success, and an ended run stays ended.
C9_ServeUntilFailure ==
    /\ [](\A s \in Servers :
            /\ runs[s] <= 1
            /\ result[s] # None => result[s].kind # "Ok")
    /\ [][\A s \in Servers :
            /\ (pc[s] = "serving" /\ pc'[s] # "serving") =>
                  /\ mech[s] = "failed"
                  /\ pc'[s] = "returned"
                  /\ result'[s] = [kind |-> "Err", error |-> "io: serve"]
            /\ pc[s] \in {"returned", "panicked"} =>
                  (pc'[s] = pc[s] /\ result'[s] = result[s])
            /\ Started(s) => (Started(s))' /\ runs'[s] = runs[s]]_vars

C9_Witness ==
    \E s \in Servers :
        /\ pc[s] = "returned"
        /\ result[s] = [kind |-> "Err", error |-> "io: serve"]
        /\ ConnsOf(s) # {}

\* C10: while a server is serving, a connection that has been accepted and whose
\* request has not yet been handled stops neither the accept loop from accepting
\* another connection nor any other connection from being handled; the shared
\* application state is never changed.
C10_ConnectionsIndependent ==
    /\ \A s \in Servers :
          (pc[s] = "serving" /\ mech[s] = "running" /\ Len(conns) < MaxConns)
              => ENABLED Accept(s)
    /\ \A c \in 1..Len(conns) :
          conns[c].stage = "accepted" => \A req \in Requests : ENABLED HandleRequest(c, req)
    /\ appState = [a \in AppStates |-> 0]

C10_Witness ==
    \E c \in 1..Len(conns), d \in 1..Len(conns) :
        /\ c < d
        /\ conns[c].stage = "accepted"
        /\ conns[d].stage = "done"
        /\ conns[c].srv = conns[d].srv

====
